---- MODULE Spec2Model ----
(***************************************************************************)
(* HttpClient (packages/utils/src/HttpClient.ts): a fetch wrapper with     *)
(* request/response interceptors, a timeout timer per attempt, a registry  *)
(* of pending requests (pendingRequests) and retry.                        *)
(*                                                                         *)
(* A call of request() is a process: it suspends at `await fetch` and at   *)
(* the retry delay.  Interceptor functions and the shouldRetry predicate   *)
(* are arbitrary user functions: what each invocation does (return or      *)
(* throw) is chosen when it is invoked.                                    *)
(***************************************************************************)
EXTENDS Integers, Sequences, FiniteSets, TLC

\* ---------------------------------------------------------------- bounds
\* The largest retry budget, the most response interceptors and the most
\* request interceptors a client is given.
MaxCount == 1
MaxInterceptors == 2
MaxRequestInterceptors == 2
\* The most registrations made while unregister functions are followed.
MaxRegistrations == 3
\* The most query parameters given to a request.
MaxParams == 2
\* The most remoteMethod calls a SearchSelect makes.
MaxSearches == 3
\* The largest version of the form (one more than the dispatches that changed it).
MaxVersion == 5

Urls == {"/a", "/b"}

\* ---------------------------------------------------------------- values
\* JS `undefined` for an optional number (HttpRequestError.status).
NoStatus == -1
Statuses == {0, 200, 404, 500}

\* RetryConfig (types.ts); defined = FALSE is `undefined`.
\* delay is left out: how long the retry delay lasts is not modelled, a call
\* that waits for its re-issue (pc = "retrying") may do so for any time.
NoRetry == [defined |-> FALSE, count |-> 0, shouldRetry |-> FALSE]
RetryConfig ==
    {NoRetry} \cup [defined : {TRUE}, count : 0..MaxCount, shouldRetry : BOOLEAN]

\* The client-wide policies tried: none, or the largest budget.
DefaultRetries ==
    {NoRetry} \cup [defined : {TRUE}, count : {MaxCount}, shouldRetry : BOOLEAN]

\* RequestOptions: the fields the client reads. "" is an absent string
\* (`undefined`); headers is the list of the headers set, in the order set.
Options(method, body, retry) ==
    [method |-> method, credentials |-> "", body |-> body, headers |-> <<>>, retry |-> retry]
Methods == {"", "get", "POST"}
Bodies == {"", "x"}

\* The options callers pass: every retry policy with the plain request, and
\* every method and body with no per-call policy.
RequestOptions ==
    {Options("", "", retry) : retry \in RetryConfig}
    \cup {Options(method, body, NoRetry) : method \in Methods, body \in Bodies}

\* String.prototype.toUpperCase on the methods used.
ToUpperCase(method) == IF method = "get" THEN "GET" ELSE method

\* A thrown or returned value: HttpRequestError, a platform exception
\* (AbortError, TypeError) or an HttpResponse envelope.  config is the
\* retry field of the RequestOptions the value echoes.
Value(name, status, config) == [name |-> name, status |-> status, config |-> config]
NoValue == Value("none", NoStatus, NoRetry)
AbortError == Value("AbortError", NoStatus, NoRetry)
NetworkError == Value("TypeError", NoStatus, NoRetry)
InterceptorError == Value("InterceptorError", NoStatus, NoRetry)

Message(v) ==
    CASE v.name = "HttpError" -> "HTTP error! status"
      [] v.name = "InvalidFormat" -> "Invalid response format"
      [] v.name = "Cancelled" -> "Request was cancelled"
      [] v.name = "AbortError" -> "The operation was aborted"
      [] v.name = "TypeError" -> "Failed to fetch"
      [] v.name = "Transformed" -> "Authentication required"
      [] OTHER -> v.name

\* `error instanceof Error`
InstanceofError(v) == v.name \in {"AbortError", "TypeError"}

\* Interceptor registrations: which of the optional functions are present
\* (at least one is).
RequestInterceptor ==
    {x \in [onRequest : BOOLEAN, onRequestError : BOOLEAN] : x.onRequest \/ x.onRequestError}
ResponseInterceptor ==
    {x \in [onResponse : BOOLEAN, onResponseError : BOOLEAN] : x.onResponse \/ x.onResponseError}

\* What one invocation of a user function does.
TransformOutcomes == {"return", "throw"}
HandlerOutcomes == {"return", "throw", "throwOther"}

SeqsUpTo(S, n) == UNION {[1..k -> S] : k \in 0..n}

\* The transport's raw responses: the status, the body ("none": response.body
\* is null; "badjson": text that JSON.parse rejects), and the content-length
\* and content-type headers.
Responses ==
    [status : Statuses, body : {"none", "json", "badjson"},
     contentLength : {"0", "17"}, contentType : {"application/json", "text/plain"}]

\* The responses the calls are answered with: JSON bodies, and one that does
\* not parse.
Response ==
    {response \in Responses :
        /\ response.contentLength = "17"
        /\ response.contentType = "application/json"
        /\ (response.body = "json" \/ (response.body = "badjson" /\ response.status = 200))}
Ok(response) == response.status >= 200 /\ response.status <= 299

VARIABLES
    defaultRetry,          \* HttpClient.defaultRetry
    pendingRequests,       \* HttpClient.pendingRequests: key -> controller
    requestInterceptors,   \* HttpClient.requestInterceptors
    responseInterceptors,  \* HttpClient.responseInterceptors
    calls,                 \* the request() calls, by caller
    registration,          \* the unregister functions handed out, in order
    normalized,            \* a handleResponse call
    keyed,                 \* two getRequestKey calls
    built,                 \* a createURLWithParams call
    search,                \* the SearchSelect component
    form                   \* the form builder's reducer state

vars ==
    <<defaultRetry, pendingRequests, requestInterceptors, responseInterceptors, calls,
      registration, normalized, keyed, built, search, form>>

\* The request() calls made.
Callers == DOMAIN calls

\* ---------------------------------------------------------------- registry
EmptyMap == [k \in {} |-> 0]
MapDelete(m, k) == [x \in DOMAIN m \ {k} |-> m[x]]

\* An absent body, where it is told from an empty one ("").
Undefined == "<undefined>"

\* The template of createRequestKey; the last part is
\* JSON.stringify(options.body || ""), the body between quotes.
createRequestKey(url, options) ==
    (IF options.method # "" THEN options.method ELSE "GET") \o "-" \o url \o "-"
    \o (IF options.credentials # "" THEN options.credentials ELSE "same-origin") \o "-"
    \o ("\"" \o (IF options.body \in {Undefined, ""} THEN "" ELSE options.body) \o "\"")

getRequestKey(url, options) == createRequestKey(url, options)

\* ---------------------------------------------------------------- a call
\* One request() call of a caller, retries included.  caught is the error
\* the current attempt's catch block caught.  budget, all500, notifyLog,
\* recoverLog, chained, respThrew, timedOut and cancelAsked record what
\* happened: the budget the call started with, whether every failure so far
\* was an HTTP 500, the handlers applyResponseInterceptors notified and those
\* the catch block tried, whether the catch block reached its onResponseError
\* loop, whether an onResponse threw, whether a timer fired, and whether
\* cancelRequest was called with the attempt's key while it awaited fetch.
\* sent is the fetchOptions of the attempt's fetch; deletes counts the
\* pendingRequests.delete calls of the attempt; reqThrew and reqLog record
\* whether an onRequest threw in the call and the onRequestError handlers
\* invoked in it; cancelAllAsked whether cancelAllRequests was called while the
\* attempt awaits fetch.
NoFetch == [method |-> "", credentials |-> "", body |-> "", headers |-> <<>>]
IdleCall ==
    [pc |-> "idle", url |-> "", options |-> Options("", "", NoRetry),
     attempt |-> 0, fetches |-> 0, aborted |-> FALSE, timer |-> FALSE,
     settled |-> "pending", result |-> NoValue,
     budget |-> 0, caught |-> NoValue, all500 |-> TRUE, notifyLog |-> <<>>, recoverLog |-> <<>>,
     chained |-> FALSE, respThrew |-> FALSE, timedOut |-> FALSE, cancelAsked |-> FALSE,
     sent |-> NoFetch, deletes |-> 0, reqThrew |-> FALSE, reqLog |-> <<>>,
     cancelAllAsked |-> FALSE]

Key(cs) == createRequestKey(cs.url, cs.options)

\* (a variant: a per-call policy whose count is 0 gives way to the default)
EffectiveRetry_ZeroFalsy(retry) == IF retry.defined /\ retry.count > 0 THEN retry ELSE defaultRetry

\* const retryConfig = options.retry || this.defaultRetry
EffectiveRetry(retry) == IF retry.defined THEN retry ELSE defaultRetry

Indices(s) == [i \in 1..Len(s) |-> i]
MinOf(S) == CHOOSE x \in S : \A y \in S : x <= y
MaxOf(S) == CHOOSE x \in S : \A y \in S : x >= y

\* What a handler that throws signals: the error it was given (`throw error`)
\* or a different record (`throw {...error, message}`).
Thrown(outcome, error) ==
    IF outcome = "throwOther" THEN [error EXCEPT !.name = "Transformed"] ELSE error

\* The record of the handlers invoked, in the order invoked, with what each did.
Logged(out, invoked) == [k \in 1..Len(invoked) |-> [i |-> invoked[k], out |-> out[invoked[k]]]]

Settle(cs, how, value) == [cs EXCEPT !.pc = "done", !.settled = how, !.result = value]

\* ---------------------------------------------------------------- chains
\* What an onRequest returns: {...config, headers: {...config.headers, <its
\* header>}} (createAuthInterceptor); interceptor i sets header i.
onRequest(i, config) == [config EXCEPT !.headers = Append(@, i)]

\* (a variant: every onRequest is given the caller's config)
applyRequestInterceptors_NotAccumulated(config, out, errOut) ==
    LET n == Len(requestInterceptors)
        currentConfig[i \in 0..n] ==
            IF i = 0 THEN config
            ELSE IF requestInterceptors[i].onRequest THEN onRequest(i, config)
            ELSE currentConfig[i - 1]
        failing == {i \in 1..n : requestInterceptors[i].onRequest /\ out[i] = "throw"}
        throwers == {j \in 1..n : requestInterceptors[j].onRequestError
                                    /\ errOut[j] # "return"}
        first == IF throwers = {} THEN n ELSE MinOf(throwers)
    IN  IF failing = {}
        THEN [threw |-> FALSE, error |-> NoValue, log |-> <<>>, config |-> currentConfig[n]]
        ELSE [threw |-> TRUE,
              error |-> IF throwers = {} THEN InterceptorError
                        ELSE Thrown(errOut[first], InterceptorError),
              log |-> Logged(errOut, SelectSeq(Indices(requestInterceptors),
                         LAMBDA j : requestInterceptors[j].onRequestError /\ j <= first)),
              config |-> config]

\* applyRequestInterceptors: out[i] is what onRequest of interceptor i does,
\* errOut[j] what onRequestError of interceptor j does.  currentConfig[i] is
\* the config after interceptor i.  The first onRequest that throws ends the
\* loop; the handlers are then awaited in order, and a handler that throws
\* leaves the function with what it threw.
applyRequestInterceptors(config, out, errOut) ==
    LET n == Len(requestInterceptors)
        currentConfig[i \in 0..n] ==
            IF i = 0 THEN config
            ELSE IF requestInterceptors[i].onRequest THEN onRequest(i, currentConfig[i - 1])
            ELSE currentConfig[i - 1]
        failing == {i \in 1..n : requestInterceptors[i].onRequest /\ out[i] = "throw"}
        throwers == {j \in 1..n : requestInterceptors[j].onRequestError
                                    /\ errOut[j] # "return"}
        first == IF throwers = {} THEN n ELSE MinOf(throwers)
    IN  IF failing = {}
        THEN [threw |-> FALSE, error |-> NoValue, log |-> <<>>, config |-> currentConfig[n]]
        ELSE [threw |-> TRUE,
              error |-> IF throwers = {} THEN InterceptorError
                        ELSE Thrown(errOut[first], InterceptorError),
              log |-> Logged(errOut, SelectSeq(Indices(requestInterceptors),
                         LAMBDA j : requestInterceptors[j].onRequestError /\ j <= first)),
              config |-> config]

\* applyResponseInterceptors: the same shape over the response interceptors.
applyResponseInterceptors(response, out, errOut) ==
    LET n == Len(responseInterceptors)
        failing == {i \in 1..n : responseInterceptors[i].onResponse /\ out[i] = "throw"}
        throwers == {j \in 1..n : responseInterceptors[j].onResponseError
                                    /\ errOut[j] # "return"}
        first == IF throwers = {} THEN n ELSE MinOf(throwers)
    IN  IF failing = {}
        THEN [threw |-> FALSE, value |-> response, log |-> <<>>]
        ELSE [threw |-> TRUE,
              value |-> IF throwers = {} THEN InterceptorError
                        ELSE Thrown(errOut[first], InterceptorError),
              log |-> Logged(errOut, SelectSeq(Indices(responseInterceptors),
                         LAMBDA j : responseInterceptors[j].onResponseError /\ j <= first))]

\* (a variant: the failure of the first handler is kept, not of the last)
responseErrorLoop_FirstFailure(httpError, out) ==
    LET n == Len(responseInterceptors)
        handlers == {j \in 1..n : responseInterceptors[j].onResponseError}
        returning == {j \in handlers : out[j] = "return"}
        last == IF returning = {} THEN n ELSE MinOf(returning)
    IN  [returned |-> returning # {},
         value |-> Value("Recovered", NoStatus, NoRetry),
         error |-> IF handlers = {} THEN httpError
                   ELSE Thrown(out[MinOf(handlers)], httpError),
         log |-> Logged(out, SelectSeq(Indices(responseInterceptors),
                    LAMBDA j : j \in handlers /\ j <= last))]

\* The loop of request()'s catch block over onResponseError: the first handler
\* that returns ends it with what it returned; a handler that throws replaces
\* `error`.  Every handler is given httpError.
responseErrorLoop(httpError, out) ==
    LET n == Len(responseInterceptors)
        handlers == {j \in 1..n : responseInterceptors[j].onResponseError}
        returning == {j \in handlers : out[j] = "return"}
        last == IF returning = {} THEN n ELSE MinOf(returning)
    IN  [returned |-> returning # {},
         value |-> Value("Recovered", NoStatus, NoRetry),
         error |-> IF handlers = {} THEN httpError
                   ELSE Thrown(out[MaxOf(handlers)], httpError),
         log |-> Logged(out, SelectSeq(Indices(responseInterceptors),
                    LAMBDA j : j \in handlers /\ j <= last))]

\* ---------------------------------------------------------------- normalizer
\* (variants: the body is read whatever content-length says; a body that does
\* not parse is reported only for a success status)
handleResponse_AlwaysReads(response, config) ==
    LET reads == response.body # "none"
        json == response.contentType = "application/json"
        data == IF ~reads THEN "null" ELSE IF json THEN "parsed" ELSE "text"
    IN  IF reads /\ json /\ response.body = "badjson"
        THEN [threw |-> TRUE, value |-> Value("InvalidFormat", response.status, config),
              data |-> "null", cause |-> "SyntaxError"]
        ELSE IF ~Ok(response)
        THEN [threw |-> TRUE, value |-> Value("HttpError", response.status, config),
              data |-> data, cause |-> ""]
        ELSE [threw |-> FALSE, value |-> Value("Envelope", response.status, config),
              data |-> data, cause |-> ""]
handleResponse_StatusFirst(response, config) ==
    LET reads == response.body # "none" /\ response.contentLength # "0"
        json == response.contentType = "application/json"
        data == IF ~reads THEN "null" ELSE IF json THEN "parsed" ELSE "text"
    IN  IF ~Ok(response)
        THEN [threw |-> TRUE, value |-> Value("HttpError", response.status, config),
              data |-> data, cause |-> ""]
        ELSE IF reads /\ json /\ response.body = "badjson"
        THEN [threw |-> TRUE, value |-> Value("InvalidFormat", response.status, config),
              data |-> "null", cause |-> "SyntaxError"]
        ELSE [threw |-> FALSE, value |-> Value("Envelope", response.status, config),
              data |-> data, cause |-> ""]

\* handleResponse: the body is read when there is one and content-length is not
\* "0", with response.json() for a JSON content type (which throws a
\* SyntaxError on text that does not parse) and response.text() otherwise.
\* data is null, the parsed JSON or the text; cause is the name of the
\* exception wrapped ("" when none).
handleResponse(response, config) ==
    LET reads == response.body # "none" /\ response.contentLength # "0"
        json == response.contentType = "application/json"
        data == IF ~reads THEN "null" ELSE IF json THEN "parsed" ELSE "text"
    IN  IF reads /\ json /\ response.body = "badjson"
        THEN [threw |-> TRUE, value |-> Value("InvalidFormat", response.status, config),
              data |-> "null", cause |-> "SyntaxError"]
        ELSE IF ~Ok(response)
        THEN [threw |-> TRUE, value |-> Value("HttpError", response.status, config),
              data |-> data, cause |-> ""]
        ELSE [threw |-> FALSE, value |-> Value("Envelope", response.status, config),
              data |-> data, cause |-> ""]

\* ---------------------------------------------------------------- retry
\* (a variant: `>` for `>=`)
DefaultShouldRetry_Above500(error) ==
    IF error.status # NoStatus /\ error.status # 0 THEN error.status > 500 ELSE TRUE

\* error.status ? error.status >= 500 : true   (0 and undefined are falsy)
DefaultShouldRetry(error) ==
    IF error.status # NoStatus /\ error.status # 0 THEN error.status >= 500 ELSE TRUE

\* retryConfig.shouldRetry?.(error) ?? (default); sr is what the predicate returns.
ShouldRetry(retryConfig, error, sr) ==
    IF retryConfig.shouldRetry THEN sr ELSE DefaultShouldRetry(error)

\* (variants: the count decremented twice; the count not decremented)
RetryOptions_TwiceDecremented(options, retryCount, retryConfig) ==
    [options EXCEPT !.retry = [retryConfig EXCEPT !.count = retryCount - 2]]
RetryOptions_SameCount(options, retryCount, retryConfig) ==
    [options EXCEPT !.retry = [retryConfig EXCEPT !.count = retryCount]]

\* The options of the re-issued request: {...options, retry: {...retryConfig, count: retryCount - 1}}
RetryOptions(options, retryCount, retryConfig) ==
    [options EXCEPT !.retry = [retryConfig EXCEPT !.count = retryCount - 1]]

\* retryRequest up to its suspension: throws error, or goes on to the delay
\* and the re-issue (pc = "retrying").
retryRequest(cs, error, retryCount, retryConfig, sr) ==
    IF retryCount <= 0 THEN Settle(cs, "rejected", error)
    ELSE IF ~ShouldRetry(retryConfig, error, sr) THEN Settle(cs, "rejected", error)
    ELSE [cs EXCEPT !.pc = "retrying"]

\* (a variant: the wrong name)
IsAbortError_WrongName(error) == InstanceofError(error) /\ error.name = "Abort"

\* error instanceof Error && error.name === "AbortError"
IsAbortError(error) == InstanceofError(error) /\ error.name = "AbortError"

\* The catch block of request().
catchBlock(cs, error, sr, recOut) ==
    LET caught == [cs EXCEPT !.timer = FALSE, !.caught = error, !.deletes = @ + 1,
                             !.cancelAllAsked = FALSE,
                             !.all500 = @ /\ error.name = "HttpError" /\ error.status = 500]
        retryConfig == EffectiveRetry(cs.options.retry)
        r == responseErrorLoop(error, recOut)
        chained == [caught EXCEPT !.chained = TRUE, !.recoverLog = r.log]
    IN  IF retryConfig.defined /\ retryConfig.count > 0
        THEN retryRequest(caught, error, retryConfig.count, retryConfig, sr)
        ELSE IF r.returned THEN Settle(chained, "resolved", r.value)
        ELSE IF IsAbortError(r.error)
        THEN Settle(chained, "rejected", Value("Cancelled", NoStatus, cs.options.retry))
        ELSE Settle(chained, "rejected", r.error)

\* The fetchOptions request() builds from the intercepted options: the default
\* headers (header 0 is Content-Type) under the options' headers, the
\* credentials defaulted, and no body when the method upper-cased is GET or HEAD.
FetchOptions(interceptedOptions) ==
    LET fetchOptions ==
            [method |-> interceptedOptions.method,
             credentials |-> IF interceptedOptions.credentials # ""
                             THEN interceptedOptions.credentials ELSE "same-origin",
             body |-> interceptedOptions.body,
             headers |-> <<0>> \o interceptedOptions.headers]
    IN  IF ToUpperCase(fetchOptions.method) \in {"GET", "HEAD"}
        THEN [fetchOptions EXCEPT !.body = ""] ELSE fetchOptions

\* (a variant: the controller of the attempt before is kept)
requestEntry_SameController(cs, url, options, reqOut, reqErrOut, sr, recOut) ==
    LET entered == [cs EXCEPT !.url = url, !.options = options, !.attempt = @ + 1,
                              !.timer = TRUE, !.chained = FALSE,
                              !.respThrew = FALSE,
                              !.caught = NoValue,
                              !.notifyLog = <<>>, !.recoverLog = <<>>,
                              !.cancelAsked = FALSE, !.cancelAllAsked = FALSE,
                              !.sent = NoFetch, !.deletes = 0]
        r == applyRequestInterceptors(options, reqOut, reqErrOut)
    IN  IF r.threw
        THEN catchBlock([entered EXCEPT !.reqThrew = TRUE, !.reqLog = @ \o r.log],
                        r.error, sr, recOut)
        ELSE [entered EXCEPT !.pc = "fetch", !.fetches = @ + 1,
                             !.sent = FetchOptions(r.config)]

\* request() from its entry to `await fetch`: a fresh controller, the timer
\* armed, the request interceptors run; nothing is put in pendingRequests.
requestEntry(cs, url, options, reqOut, reqErrOut, sr, recOut) ==
    LET entered == [cs EXCEPT !.url = url, !.options = options, !.attempt = @ + 1,
                              !.aborted = FALSE, !.timer = TRUE, !.chained = FALSE,
                              !.respThrew = FALSE,
                              !.caught = NoValue,
                              !.notifyLog = <<>>, !.recoverLog = <<>>,
                              !.cancelAsked = FALSE, !.cancelAllAsked = FALSE,
                              !.sent = NoFetch, !.deletes = 0]
        r == applyRequestInterceptors(options, reqOut, reqErrOut)
    IN  IF r.threw
        THEN catchBlock([entered EXCEPT !.reqThrew = TRUE, !.reqLog = @ \o r.log],
                        r.error, sr, recOut)
        ELSE [entered EXCEPT !.pc = "fetch", !.fetches = @ + 1,
                             !.sent = FetchOptions(r.config)]

\* (a variant: the timer is left armed when fetch resolves)
afterFetch_TimerKept(cs, response, onOut, notifyOut, sr, recOut) ==
    LET cleared == [cs EXCEPT !.deletes = @ + 1, !.cancelAllAsked = FALSE]
        h == handleResponse(response, cs.options.retry)
        a == applyResponseInterceptors(h.value, onOut, notifyOut)
    IN  IF h.threw THEN [catchBlock(cleared, h.value, sr, recOut) EXCEPT !.timer = cleared.timer]
        ELSE IF a.threw
        THEN [catchBlock([cleared EXCEPT !.notifyLog = a.log, !.respThrew = TRUE],
                         a.value, sr, recOut) EXCEPT !.timer = cleared.timer]
        ELSE Settle(cleared, "resolved", a.value)

\* request() after fetch resolved: timer cleared, handleResponse, the response
\* interceptors, and the catch block when either throws.
afterFetch(cs, response, onOut, notifyOut, sr, recOut) ==
    LET cleared == [cs EXCEPT !.timer = FALSE, !.deletes = @ + 1, !.cancelAllAsked = FALSE]
        h == handleResponse(response, cs.options.retry)
        a == applyResponseInterceptors(h.value, onOut, notifyOut)
    IN  IF h.threw THEN catchBlock(cleared, h.value, sr, recOut)
        ELSE IF a.threw
        THEN catchBlock([cleared EXCEPT !.notifyLog = a.log, !.respThrew = TRUE],
                        a.value, sr, recOut)
        ELSE Settle(cleared, "resolved", a.value)

\* What the user functions do in one step.  A function that is absent or is
\* not reached in the step is given the one outcome "return".
\* present[i]: interceptor i has the function; ending: the outcomes that end
\* the loop.
Outcomes(present, choices, ending) ==
    {f \in [1..Len(present) -> choices] :
        \A i \in 1..Len(present) :
            (~present[i] \/ \E k \in 1..(i - 1) : present[k] /\ f[k] \in ending)
            => f[i] = "return"}
Has(interceptors, fn) == [i \in 1..Len(interceptors) |-> interceptors[i][fn]]
Returns(interceptors) == {[i \in 1..Len(interceptors) |-> "return"]}
Throws(out) == \E i \in DOMAIN out : out[i] = "throw"

ReqOutcomes ==
    Outcomes(Has(requestInterceptors, "onRequest"), TransformOutcomes, {"throw"})
ReqErrOutcomes(reqOut) ==
    IF Throws(reqOut)
    THEN Outcomes(Has(requestInterceptors, "onRequestError"), HandlerOutcomes,
                  {"throw", "throwOther"})
    ELSE Returns(requestInterceptors)
RespOutcomes(failed) ==
    IF failed THEN Returns(responseInterceptors)
    ELSE Outcomes(Has(responseInterceptors, "onResponse"), TransformOutcomes, {"throw"})
NotifyOutcomes(onOut) ==
    IF Throws(onOut)
    THEN Outcomes(Has(responseInterceptors, "onResponseError"), HandlerOutcomes,
                  {"throw", "throwOther"})
    ELSE Returns(responseInterceptors)
\* The catch block asks shouldRetry or runs the onResponseError loop, never both.
Retrying(options) == EffectiveRetry(options.retry).defined /\ EffectiveRetry(options.retry).count > 0
SrOutcomes(options, failed) ==
    IF failed /\ Retrying(options) /\ EffectiveRetry(options.retry).shouldRetry
    THEN BOOLEAN ELSE {TRUE}
RecoverOutcomes(options, failed) ==
    IF failed /\ ~Retrying(options)
    THEN Outcomes(Has(responseInterceptors, "onResponseError"), HandlerOutcomes, {"return"})
    ELSE Returns(responseInterceptors)

\* ---------------------------------------------------------------- actions
\* Nothing besides request() calls is going on: no unregister function is
\* held, and no helper call and no SearchSelect is followed.
NoRegistration == <<>>
NoNormalized == [called |-> FALSE]
NoKeyed == [called |-> FALSE]
NoBuilt == [called |-> FALSE]
NoSearch == [mounted |-> FALSE]
NoForm == [mounted |-> FALSE]
Apart == <<registration, normalized, keyed, built, search, form>>
RequestsOnly ==
    /\ registration = NoRegistration
    /\ normalized = NoNormalized
    /\ keyed = NoKeyed
    /\ built = NoBuilt
    /\ search = NoSearch
    /\ form = NoForm

\* A client as constructed and set up: its default policy, and the
\* interceptors registered with it (in registration order); no request made.
Client ==
    /\ defaultRetry \in DefaultRetries
    /\ pendingRequests = EmptyMap
    /\ requestInterceptors \in SeqsUpTo(RequestInterceptor, MaxRequestInterceptors)
    /\ responseInterceptors \in SeqsUpTo(ResponseInterceptor, MaxInterceptors)
    /\ RequestsOnly

\* One request() call is made of a client without request interceptors.
Init ==
    /\ Client
    /\ requestInterceptors = <<>>
    /\ calls = [c \in {1} |-> IdleCall]

\* One request() call is made of a client with request interceptors, no
\* default policy and at most one response interceptor, an error handler.
InitRequest ==
    /\ Client
    /\ requestInterceptors # <<>>
    /\ defaultRetry = NoRetry
    /\ responseInterceptors \in {<<>>, <<[onResponse |-> FALSE, onResponseError |-> TRUE]>>}
    /\ calls = [c \in {1} |-> IdleCall]

\* Two request() calls are made of a client without interceptors and without
\* default policy.
InitConcurrent ==
    /\ Client
    /\ requestInterceptors = <<>> /\ responseInterceptors = <<>>
    /\ defaultRetry = NoRetry
    /\ calls = [c \in {1, 2} |-> IdleCall]

Config == <<defaultRetry, requestInterceptors, responseInterceptors>>

\* The URLs a call is made with: calls are interchangeable, the first call's
\* URL is fixed.
UrlsOf(c) == IF c = 1 THEN {"/a"} ELSE Urls

\* The options a call is made with: the methods and bodies are tried with one
\* call of a client without interceptors and default policy.
PlainClient ==
    /\ requestInterceptors = <<>> /\ responseInterceptors = <<>> /\ defaultRetry = NoRetry
    /\ Cardinality(Callers) = 1
MethodsTried == IF PlainClient THEN Methods ELSE {""}
BodiesTried == IF PlainClient THEN Bodies ELSE {""}
OptionsTried ==
    {options \in RequestOptions :
        options.method \in MethodsTried /\ options.body \in BodiesTried}

\* A caller calls request(url, options).
Request(c) ==
    /\ calls[c].pc = "idle"
    /\ \E url \in UrlsOf(c), options \in OptionsTried, reqOut \in ReqOutcomes :
       \E reqErrOut \in ReqErrOutcomes(reqOut), sr \in SrOutcomes(options, Throws(reqOut)),
          recOut \in RecoverOutcomes(options, Throws(reqOut)) :
          LET cs == requestEntry([calls[c] EXCEPT !.budget = EffectiveRetry(options.retry).count],
                                 url, options, reqOut, reqErrOut, sr, recOut)
          IN  /\ calls' = [calls EXCEPT ![c] = cs]
              /\ pendingRequests' = IF cs.pc = "fetch" THEN pendingRequests
                                    ELSE MapDelete(pendingRequests, Key(cs))
    /\ UNCHANGED <<Config, Apart>>

\* retryRequest after its delay: request() is entered again.
RetryReissue(c) ==
    /\ calls[c].pc = "retrying"
    /\ calls[c].attempt <= MaxCount + 1
    /\ LET retryConfig == EffectiveRetry(calls[c].options.retry)
           options == RetryOptions(calls[c].options, retryConfig.count, retryConfig)
       IN  \E reqOut \in ReqOutcomes :
           \E reqErrOut \in ReqErrOutcomes(reqOut), sr \in SrOutcomes(options, Throws(reqOut)),
              recOut \in RecoverOutcomes(options, Throws(reqOut)) :
          LET cs == requestEntry(calls[c], calls[c].url, options, reqOut, reqErrOut, sr, recOut)
          IN  /\ calls' = [calls EXCEPT ![c] = cs]
              /\ pendingRequests' = IF cs.pc = "fetch" THEN pendingRequests
                                    ELSE MapDelete(pendingRequests, Key(cs))
    /\ UNCHANGED <<Config, Apart>>

\* fetch resolves with a response.
TransportRespond(c) ==
    /\ calls[c].pc = "fetch" /\ ~calls[c].aborted
    /\ \E response \in Response :
       \E onOut \in RespOutcomes(handleResponse(response, NoRetry).threw) :
       \E notifyOut \in NotifyOutcomes(onOut),
          sr \in SrOutcomes(calls[c].options,
                            handleResponse(response, NoRetry).threw \/ Throws(onOut)),
          recOut \in RecoverOutcomes(calls[c].options,
                            handleResponse(response, NoRetry).threw \/ Throws(onOut)) :
          calls' = [calls EXCEPT ![c] = afterFetch(@, response, onOut, notifyOut, sr, recOut)]
    /\ pendingRequests' = MapDelete(pendingRequests, Key(calls[c]))
    /\ UNCHANGED <<Config, Apart>>

\* fetch rejects: a network failure (TypeError).
TransportFail(c) ==
    /\ calls[c].pc = "fetch" /\ ~calls[c].aborted
    /\ \E sr \in SrOutcomes(calls[c].options, TRUE),
          recOut \in RecoverOutcomes(calls[c].options, TRUE) :
          calls' = [calls EXCEPT ![c] = catchBlock(@, NetworkError, sr, recOut)]
    /\ pendingRequests' = MapDelete(pendingRequests, Key(calls[c]))
    /\ UNCHANGED <<Config, Apart>>

\* (a variant: one controller shared by the calls)
Timeout_SharedController(c) ==
    /\ calls[c].pc = "fetch" /\ calls[c].timer
    /\ calls' = [d \in DOMAIN calls |->
                   IF d = c THEN [calls[d] EXCEPT !.aborted = TRUE, !.timer = FALSE,
                                                  !.timedOut = TRUE, !.deletes = @ + 1]
                   ELSE IF calls[d].pc = "fetch" THEN [calls[d] EXCEPT !.aborted = TRUE]
                   ELSE calls[d]]
    /\ pendingRequests' = MapDelete(pendingRequests, Key(calls[c]))
    /\ UNCHANGED <<Config, Apart>>

\* The timeout callback of an attempt: controller.abort(), pendingRequests.delete.
Timeout(c) ==
    /\ calls[c].pc = "fetch" /\ calls[c].timer
    /\ calls' = [calls EXCEPT ![c].aborted = TRUE, ![c].timer = FALSE, ![c].timedOut = TRUE,
                               ![c].deletes = @ + 1]
    /\ pendingRequests' = MapDelete(pendingRequests, Key(calls[c]))
    /\ UNCHANGED <<Config, Apart>>

\* fetch rejects with AbortError once its signal is aborted.
FetchAborted(c) ==
    /\ calls[c].pc = "fetch" /\ calls[c].aborted
    /\ \E sr \in SrOutcomes(calls[c].options, TRUE),
          recOut \in RecoverOutcomes(calls[c].options, TRUE) :
          calls' = [calls EXCEPT ![c] = catchBlock(@, AbortError, sr, recOut)]
    /\ pendingRequests' = MapDelete(pendingRequests, Key(calls[c]))
    /\ UNCHANGED <<Config, Apart>>

\* A controller is the attempt that created it.
Controller(c, cs) == [call |-> c, attempt |-> cs.attempt]
Abort(cs, c, ctl) ==
    IF ctl = Controller(c, cs) /\ cs.pc = "fetch" THEN [cs EXCEPT !.aborted = TRUE] ELSE cs

\* The keys cancelRequest is called with: those of the requests made, and one
\* of a request never made.
Keys ==
    {createRequestKey(url, Options(method, body, NoRetry)) :
        url \in Urls, method \in MethodsTried, body \in BodiesTried}
    \cup {"GET-/none-same-origin-\"\""}

\* (a variant: the controller is looked up among the requests in flight)
cancelRequest_InFlight(requestKey) ==
    /\ calls' = [c \in DOMAIN calls |->
                   IF calls[c].pc = "fetch" /\ Key(calls[c]) = requestKey
                   THEN [calls[c] EXCEPT !.cancelAsked = TRUE, !.aborted = TRUE] ELSE calls[c]]
    /\ pendingRequests' = MapDelete(pendingRequests, requestKey)
    /\ UNCHANGED <<Config, Apart>>

cancelRequest(requestKey) ==
    /\ calls' = [c \in DOMAIN calls |->
                   LET asked == IF calls[c].pc = "fetch" /\ Key(calls[c]) = requestKey
                                THEN [calls[c] EXCEPT !.cancelAsked = TRUE] ELSE calls[c]
                   IN  IF requestKey \in DOMAIN pendingRequests
                       THEN Abort(asked, c, pendingRequests[requestKey]) ELSE asked]
    /\ pendingRequests' = IF requestKey \in DOMAIN pendingRequests
                          THEN MapDelete(pendingRequests, requestKey) ELSE pendingRequests
    /\ UNCHANGED <<Config, Apart>>

\* (a variant: every request in flight is aborted)
cancelAllRequests_InFlight ==
    /\ calls' = [c \in DOMAIN calls |->
                   IF calls[c].pc = "fetch"
                   THEN [calls[c] EXCEPT !.cancelAllAsked = TRUE, !.aborted = TRUE] ELSE calls[c]]
    /\ pendingRequests' = EmptyMap
    /\ UNCHANGED <<Config, Apart>>

\* cancelAllRequests: every controller in the registry aborted, the registry
\* cleared.
cancelAllRequests ==
    /\ calls' = [c \in DOMAIN calls |->
                   LET asked == IF calls[c].pc = "fetch"
                                THEN [calls[c] EXCEPT !.cancelAllAsked = TRUE] ELSE calls[c]
                   IN  IF \E k \in DOMAIN pendingRequests :
                              pendingRequests[k] = Controller(c, calls[c])
                       THEN Abort(asked, c, Controller(c, calls[c])) ELSE asked]
    /\ pendingRequests' = EmptyMap
    /\ UNCHANGED <<Config, Apart>>

Next ==
    \/ \E c \in Callers : Request(c)
    \/ \E c \in Callers : RetryReissue(c)
    \/ \E c \in Callers : TransportRespond(c)
    \/ \E c \in Callers : TransportFail(c)
    \/ \E c \in Callers : Timeout(c)
    \/ \E c \in Callers : FetchAborted(c)
    \/ \E requestKey \in Keys : cancelRequest(requestKey)
    \/ cancelAllRequests

Spec == Init /\ [][Next]_vars
RequestSpec == InitRequest /\ [][Next]_vars
ConcurrentSpec == InitConcurrent /\ [][Next]_vars

\* Every fetch settles (the transport answers or fails, or the attempt's timer
\* aborts it and fetch then rejects), and every retry delay ends.  (The call
\* of Init is call 1.)
Fairness ==
    \A c \in {1} :
        /\ WF_vars(TransportRespond(c) \/ TransportFail(c) \/ Timeout(c))
        /\ WF_vars(FetchAborted(c))
        /\ WF_vars(RetryReissue(c))

FairSpec == Spec /\ Fairness

\* ---------------------------------------------------------------- registration
\* No request() call is made.
NoCalls ==
    /\ defaultRetry = NoRetry
    /\ pendingRequests = EmptyMap
    /\ calls = <<>>

\* Array.prototype.indexOf (0: not found; positions count from 1) and
\* splice(index, 1).
IndexOf(array, x) ==
    IF \E i \in 1..Len(array) : array[i] = x
    THEN MinOf({i \in 1..Len(array) : array[i] = x}) ELSE 0
Splice(array, index) == SubSeq(array, 1, index - 1) \o SubSeq(array, index + 1, Len(array))

\* A registration is the closure add*Interceptor returned: the list it works
\* on and the interceptor object it captured (a value of RequestInterceptor or
\* ResponseInterceptor stands for one object: registering a value again is
\* registering the same object again).  called records that the closure was
\* called.
addRequestInterceptor(interceptor) ==
    /\ Len(registration) < MaxRegistrations
    /\ requestInterceptors' = Append(requestInterceptors, interceptor)
    /\ registration' =
         Append(registration, [list |-> "request", interceptor |-> interceptor, called |-> FALSE])
    /\ UNCHANGED <<defaultRetry, pendingRequests, responseInterceptors, calls,
                   normalized, keyed, built, search, form>>

addResponseInterceptor(interceptor) ==
    /\ Len(registration) < MaxRegistrations
    /\ responseInterceptors' = Append(responseInterceptors, interceptor)
    /\ registration' =
         Append(registration, [list |-> "response", interceptor |-> interceptor, called |-> FALSE])
    /\ UNCHANGED <<defaultRetry, pendingRequests, requestInterceptors, calls,
                   normalized, keyed, built, search, form>>

\* The closure bodies: indexOf(interceptor), and splice when found.
Unregistered(array, interceptor) ==
    LET index == IndexOf(array, interceptor)
    IN  IF index >= 1 THEN Splice(array, index) ELSE array

\* The h-th unregister function handed out is called.
unregister(h) ==
    /\ registration' = [registration EXCEPT ![h].called = TRUE]
    /\ IF registration[h].list = "request"
       THEN /\ requestInterceptors' =
                 Unregistered(requestInterceptors, registration[h].interceptor)
            /\ UNCHANGED responseInterceptors
       ELSE /\ responseInterceptors' =
                 Unregistered(responseInterceptors, registration[h].interceptor)
            /\ UNCHANGED requestInterceptors
    /\ UNCHANGED <<defaultRetry, pendingRequests, calls, normalized, keyed, built, search, form>>

\* A client as constructed; interceptors are registered and unregistered.
InitRegistration ==
    /\ NoCalls
    /\ requestInterceptors = <<>> /\ responseInterceptors = <<>>
    /\ registration = <<>>
    /\ normalized = NoNormalized /\ keyed = NoKeyed /\ built = NoBuilt /\ search = NoSearch /\ form = NoForm

NextRegistration ==
    \/ \E interceptor \in RequestInterceptor : addRequestInterceptor(interceptor)
    \/ \E interceptor \in ResponseInterceptor : addResponseInterceptor(interceptor)
    \/ \E h \in 1..Len(registration) : unregister(h)

RegistrationSpec == InitRegistration /\ [][NextRegistration]_vars

\* ---------------------------------------------------------------- getRequestKey alone
\* getRequestKey is called for two requests; a request is a URL with the
\* method, credentials and body of its options.
KeyMethods == {"", "GET", "A", "A-B"}
KeyUrls == {"/a", "B-/a"}
KeyCredentials == {"", "same-origin", "include"}
KeyBodies == {Undefined, "", "x"}
KeyRequests ==
    {[url |-> url,
      options |-> [Options(method, body, NoRetry) EXCEPT !.credentials = credentials]] :
        url \in KeyUrls, method \in KeyMethods, credentials \in KeyCredentials,
        body \in KeyBodies}

InitKey ==
    /\ NoCalls
    /\ requestInterceptors = <<>> /\ responseInterceptors = <<>>
    /\ registration = NoRegistration /\ normalized = NoNormalized
    /\ keyed \in [called : {FALSE}, a : KeyRequests, b : KeyRequests, keyA : {""}, keyB : {""}]
    /\ built = NoBuilt /\ search = NoSearch /\ form = NoForm

GetRequestKeys ==
    /\ ~keyed.called
    /\ keyed' = [keyed EXCEPT !.called = TRUE,
                              !.keyA = getRequestKey(keyed.a.url, keyed.a.options),
                              !.keyB = getRequestKey(keyed.b.url, keyed.b.options)]
    /\ UNCHANGED <<defaultRetry, pendingRequests, requestInterceptors, responseInterceptors,
                   calls, registration, normalized, built, search, form>>

KeySpec == InitKey /\ [][GetRequestKeys]_vars

\* ---------------------------------------------------------------- createURLWithParams alone
\* Text is a list of tokens: a token of a URL is a run of characters or one
\* of "?", "&", "="; a parameter value is a list of characters.
RECURSIVE Join(_)
Join(tokens) == IF tokens = <<>> THEN "" ELSE Head(tokens) \o Join(Tail(tokens))

\* A parameter value: undefined, null, or a string (String(value)).
ParamValue(kind, chars) == [kind |-> kind, chars |-> chars]
ParamValues ==
    {ParamValue("undefined", <<>>), ParamValue("null", <<>>)}
    \cup {ParamValue("string", chars) :
            chars \in {<<>>, <<" ">>, <<"a", " ", "b">>, <<" ", "a">>, <<"a", "&">>}}
ParamKeys == {"q", "empty", "n"}

\* Object.entries(params): the entries in insertion order, no key twice.
Params ==
    {params \in SeqsUpTo([key : ParamKeys, value : ParamValues], MaxParams) :
        \A i, j \in DOMAIN params : i # j => params[i].key # params[j].key}

\* String.prototype.trim on a list of characters.
RECURSIVE TrimStart(_)
TrimStart(chars) ==
    IF chars # <<>> /\ Head(chars) = " " THEN TrimStart(Tail(chars)) ELSE chars
RECURSIVE TrimEnd(_)
TrimEnd(chars) ==
    IF chars # <<>> /\ chars[Len(chars)] = " "
    THEN TrimEnd(SubSeq(chars, 1, Len(chars) - 1)) ELSE chars
Trim(chars) == TrimEnd(TrimStart(chars))

\* URLSearchParams.prototype.toString: the application/x-www-form-urlencoded
\* serializer writes a space as "+" and percent-encodes "&".
Serialize(char) ==
    CASE char = " " -> "+"
      [] char = "&" -> "%26"
      [] OTHER -> char
RECURSIVE SearchParamsToString(_)
SearchParamsToString(list) ==
    IF list = <<>> THEN <<>>
    ELSE <<list[1].key, "=">>
         \o [i \in 1..Len(list[1].value) |-> Serialize(list[1].value[i])]
         \o (IF Len(list) > 1 THEN <<"&">> \o SearchParamsToString(Tail(list)) ELSE <<>>)

Includes(text, token) == \E i \in 1..Len(text) : text[i] = token

\* (a variant: the value is not trimmed before it is tested)
createURLWithParams_NoTrim(url, hasParams, params) ==
    LET appended == SelectSeq(params, LAMBDA p : p.value.kind = "string" /\ p.value.chars # <<>>)
        searchParams == [i \in 1..Len(appended) |->
                            [key |-> appended[i].key, value |-> appended[i].value.chars]]
        queryString == SearchParamsToString(searchParams)
    IN  IF ~hasParams THEN url
        ELSE IF queryString # <<>>
        THEN url \o <<IF Includes(url, "?") THEN "&" ELSE "?">> \o queryString
        ELSE url

\* createURLWithParams: the entries whose value is neither undefined nor null
\* nor blank after trimming are appended (untrimmed) to a URLSearchParams.
createURLWithParams(url, hasParams, params) ==
    LET appended == SelectSeq(params, LAMBDA p : p.value.kind = "string"
                                                   /\ Trim(p.value.chars) # <<>>)
        searchParams == [i \in 1..Len(appended) |->
                            [key |-> appended[i].key, value |-> appended[i].value.chars]]
        queryString == SearchParamsToString(searchParams)
    IN  IF ~hasParams THEN url
        ELSE IF queryString # <<>>
        THEN url \o <<IF Includes(url, "?") THEN "&" ELSE "?">> \o queryString
        ELSE url

\* A request is made with a base URL, a path and (or without) params.
InitUrl ==
    /\ NoCalls
    /\ requestInterceptors = <<>> /\ responseInterceptors = <<>>
    /\ registration = NoRegistration /\ normalized = NoNormalized /\ keyed = NoKeyed
    /\ built \in {b \in [called : {FALSE}, baseURL : {<<"/api">>},
                          url : {<<"/users">>, <<"/users", "?", "x=1">>},
                          hasParams : BOOLEAN, params : Params, fullUrl : {<<>>}] :
                      ~b.hasParams => b.params = <<>>}
    /\ search = NoSearch /\ form = NoForm

\* const fullUrl = this.createURLWithParams(`${this.baseURL}${url}`, interceptedOptions.params)
BuildUrl ==
    /\ ~built.called
    /\ built' = [built EXCEPT !.called = TRUE,
                              !.fullUrl = createURLWithParams(built.baseURL \o built.url,
                                                              built.hasParams, built.params)]
    /\ UNCHANGED <<defaultRetry, pendingRequests, requestInterceptors, responseInterceptors,
                   calls, registration, normalized, keyed, search, form>>

UrlSpec == InitUrl /\ [][BuildUrl]_vars

\* ---------------------------------------------------------------- SearchSelect
\* What the user types into the input; value.trim() of it.
SearchTerms == {"", " ", "a", "b"}
TrimTerm(value) == IF value = " " THEN "" ELSE value

\* apiData is named by the search term whose options it holds; NoData is [].
\* The remote has two options for "a" and one for "b".
NoData == "[]"
OptionsLength(apiData) ==
    CASE apiData = NoData -> 0
      [] apiData = "a" -> 2
      [] OTHER -> 1
\* The names of the options held: what Enter can put into the input.
OptionNames(apiData) == IF apiData = "a" THEN {"a", "b"} ELSE {"b"}
KeyNames == {"ArrowDown", "ArrowUp", "Home", "End", "Enter", "Escape", "Tab"}

\* The component as mounted: useState's initial values, the debounce timer of
\* the first render armed, no controller (abortControllerRef.current is the
\* position of its request in requests, 0 for null).  A request is a
\* remoteMethod call awaited by fetchOptions: its search term, the isMounted
\* argument of the fetchOptions call, whether its signal is aborted and
\* whether it settled.
Mounted ==
    [mounted |-> TRUE, searchTerm |-> "", debouncedSearchTerm |-> "", timer |-> TRUE,
     apiStatus |-> "idle", apiData |-> NoData, abortControllerRef |-> 0, requests |-> <<>>,
     isOpen |-> FALSE, activeIndex |-> -1]

\* resetApiState
resetApiState(st) == [st EXCEPT !.apiData = NoData, !.apiStatus = "idle"]

\* fetchOptions(searchTerm, isMounted) up to `await remoteMethod`.
fetchOptions(st, searchTerm, isMounted) ==
    IF TrimTerm(searchTerm) = "" THEN resetApiState(st)
    ELSE LET aborted == IF st.abortControllerRef # 0
                        THEN [st.requests EXCEPT ![st.abortControllerRef].aborted = TRUE]
                        ELSE st.requests
         IN  [st EXCEPT !.apiStatus = "loading",
                        !.requests = Append(aborted, [term |-> searchTerm, isMounted |-> isMounted,
                                                      aborted |-> FALSE, settled |-> FALSE]),
                        !.abortControllerRef = Len(st.requests) + 1]

\* onInputChange: setSearchTerm, setIsOpen(true), setActiveIndex(-1);
\* useDebounce's effect clears the timer and arms a new one.
onInputChange(value) ==
    /\ value # search.searchTerm
    /\ search' = [search EXCEPT !.searchTerm = value, !.timer = TRUE,
                                !.isOpen = TRUE, !.activeIndex = -1]
    /\ UNCHANGED <<defaultRetry, pendingRequests, requestInterceptors, responseInterceptors,
                   calls, registration, normalized, keyed, built, form>>

\* onInputFocus
onInputFocus ==
    /\ search' = [search EXCEPT !.isOpen = TRUE,
                                !.activeIndex = IF OptionsLength(search.apiData) > 0
                                                THEN 0 ELSE @]
    /\ UNCHANGED <<defaultRetry, pendingRequests, requestInterceptors, responseInterceptors,
                   calls, registration, normalized, keyed, built, form>>

\* handleKeyDown; name is the name of the option Enter selects (it becomes
\* the search term, which arms the debounce timer when it differs).
handleKeyDown(key, name) ==
    /\ search.isOpen
    /\ LET optionsLength == OptionsLength(search.apiData)
           prev == search.activeIndex
       IN  search' =
             CASE key = "ArrowDown" ->
                     [search EXCEPT !.activeIndex = IF prev < optionsLength - 1
                                                    THEN prev + 1 ELSE prev]
               [] key = "ArrowUp" ->
                     [search EXCEPT !.activeIndex = IF prev > 0 THEN prev - 1 ELSE prev]
               [] key = "Home" -> [search EXCEPT !.activeIndex = 0]
               [] key = "End" -> [search EXCEPT !.activeIndex = optionsLength - 1]
               [] key = "Enter" ->
                     IF prev >= 0 /\ prev < optionsLength
                     THEN [search EXCEPT !.isOpen = FALSE, !.searchTerm = name,
                                         !.timer = @ \/ name # search.searchTerm]
                     ELSE search
               [] key = "Escape" -> [search EXCEPT !.isOpen = FALSE, !.activeIndex = -1]
               [] key = "Tab" -> [search EXCEPT !.isOpen = FALSE]
               [] OTHER -> search
    /\ UNCHANGED <<defaultRetry, pendingRequests, requestInterceptors, responseInterceptors,
                   calls, registration, normalized, keyed, built, form>>

\* The debounce timer fires: setDebouncedValue(value.trim()); when the value
\* changed, the effect's cleanup runs (it assigns the effect's own isMounted
\* variable, not the argument fetchOptions was given) and the effect calls
\* fetchOptions(debouncedSearchTerm, true).
DebounceFires ==
    /\ search.timer
    /\ LET value == TrimTerm(search.searchTerm)
           fired == [search EXCEPT !.timer = FALSE, !.debouncedSearchTerm = value]
       IN  /\ value # search.debouncedSearchTerm => Len(search.requests) < MaxSearches
           /\ search' = IF value # search.debouncedSearchTerm
                         THEN fetchOptions(fired, value, TRUE) ELSE fired
    /\ UNCHANGED <<defaultRetry, pendingRequests, requestInterceptors, responseInterceptors,
                   calls, registration, normalized, keyed, built, form>>

\* remoteMethod resolves (it passes the signal to fetch, so not once aborted):
\* if (isMounted) { setApiData(data); setApiStatus("success") }.
RemoteResolves(r) ==
    /\ ~search.requests[r].settled /\ ~search.requests[r].aborted
    /\ LET settled == [search EXCEPT !.requests[r].settled = TRUE]
       IN  search' = IF search.requests[r].isMounted
                     THEN [settled EXCEPT !.apiData = search.requests[r].term,
                                          !.apiStatus = "success"]
                     ELSE settled
    /\ UNCHANGED <<defaultRetry, pendingRequests, requestInterceptors, responseInterceptors,
                   calls, registration, normalized, keyed, built, form>>

\* remoteMethod rejects: with an AbortError once its signal is aborted (then
\* nothing is set), with another error otherwise.
RemoteRejects(r) ==
    /\ ~search.requests[r].settled
    /\ LET settled == [search EXCEPT !.requests[r].settled = TRUE]
       IN  search' = IF ~search.requests[r].aborted /\ search.requests[r].isMounted
                     THEN [settled EXCEPT !.apiStatus = "error"]
                     ELSE settled
    /\ UNCHANGED <<defaultRetry, pendingRequests, requestInterceptors, responseInterceptors,
                   calls, registration, normalized, keyed, built, form>>

InitSearch ==
    /\ NoCalls
    /\ requestInterceptors = <<>> /\ responseInterceptors = <<>>
    /\ registration = NoRegistration /\ normalized = NoNormalized /\ keyed = NoKeyed
    /\ built = NoBuilt
    /\ search = Mounted /\ form = NoForm

NextSearch ==
    \/ \E value \in SearchTerms : onInputChange(value)
    \/ onInputFocus
    \/ \E key \in KeyNames, name \in OptionNames(search.apiData) : handleKeyDown(key, name)
    \/ DebounceFires
    \/ \E r \in 1..Len(search.requests) : RemoteResolves(r)
    \/ \E r \in 1..Len(search.requests) : RemoteRejects(r)

SearchSpec == InitSearch /\ [][NextSearch]_vars

\* ---------------------------------------------------------------- form builder
\* A field is its id and its label; a command is its type with the field
\* (ADD_FIELD, UPDATE_FIELD) or the field id (DELETE_FIELD) it carries.
FieldIds == {1, 2}
Labels == {"", "x"}
NoField == [id |-> 0, label |-> ""]
Command(type, field, fieldId) == [type |-> type, field |-> field, fieldId |-> fieldId]
NoCommand == Command("none", NoField, 0)

\* The commands the actions of FormBuilder build: addField (a new field, its
\* label empty), updateField and deleteField.
Commands ==
    {Command("ADD_FIELD", [id |-> id, label |-> ""], 0) : id \in FieldIds}
    \cup {Command("UPDATE_FIELD", [id |-> id, label |-> label], 0) :
            id \in FieldIds, label \in Labels}
    \cup {Command("DELETE_FIELD", NoField, id) : id \in FieldIds}

applyCommand(fields, command) ==
    CASE command.type = "ADD_FIELD" -> Append(fields, command.field)
      [] command.type = "UPDATE_FIELD" ->
            [i \in 1..Len(fields) |->
                IF fields[i].id = command.field.id THEN command.field ELSE fields[i]]
      [] command.type = "DELETE_FIELD" ->
            SelectSeq(fields, LAMBDA field : field.id # command.fieldId)
      [] OTHER -> fields

\* commands.reduce((fields, command) => applyCommand(fields, command), [])
Reduce(commands) ==
    LET fields[i \in 0..Len(commands)] ==
            IF i = 0 THEN <<>> ELSE applyCommand(fields[i - 1], commands[i])
    IN  fields[Len(commands)]

\* commands.slice(0, end)
Slice(commands, end) == SubSeq(commands, 1, end)

initialState == [fields |-> <<>>, commands |-> <<>>, currentIndex |-> -1, version |-> 1]

\* (variants: UNDO leaves the fields as they are; EXECUTE_COMMAND keeps the
\* undone commands)
formReducer_UndoKeepsFields(state, action) ==
    CASE action.type = "EXECUTE_COMMAND" ->
            [state EXCEPT !.commands = Append(Slice(state.commands, state.currentIndex + 1),
                                              action.command),
                          !.currentIndex = state.currentIndex + 1,
                          !.fields = applyCommand(state.fields, action.command),
                          !.version = state.version + 1]
      [] action.type = "UNDO" ->
            IF state.currentIndex < 0 THEN state
            ELSE [state EXCEPT !.currentIndex = state.currentIndex - 1,
                               !.version = state.version + 1]
      [] action.type = "REDO" ->
            IF state.currentIndex >= Len(state.commands) - 1 THEN state
            ELSE [state EXCEPT !.currentIndex = state.currentIndex + 1,
                               !.fields = applyCommand(state.fields,
                                                       state.commands[state.currentIndex + 2]),
                               !.version = state.version + 1]
      [] OTHER -> state
formReducer_KeepsUndone(state, action) ==
    CASE action.type = "EXECUTE_COMMAND" ->
            [state EXCEPT !.commands = Append(state.commands, action.command),
                          !.currentIndex = state.currentIndex + 1,
                          !.fields = applyCommand(state.fields, action.command),
                          !.version = state.version + 1]
      [] action.type = "UNDO" ->
            IF state.currentIndex < 0 THEN state
            ELSE [state EXCEPT !.currentIndex = state.currentIndex - 1,
                               !.fields = Reduce(Slice(state.commands, state.currentIndex)),
                               !.version = state.version + 1]
      [] action.type = "REDO" ->
            IF state.currentIndex >= Len(state.commands) - 1 THEN state
            ELSE [state EXCEPT !.currentIndex = state.currentIndex + 1,
                               !.fields = applyCommand(state.fields,
                                                       state.commands[state.currentIndex + 2]),
                               !.version = state.version + 1]
      [] OTHER -> state

\* formReducer.  currentIndex is the source's (from -1); the command at the
\* source's index k is commands[k + 1].
formReducer(state, action) ==
    CASE action.type = "EXECUTE_COMMAND" ->
            [state EXCEPT !.commands = Append(Slice(state.commands, state.currentIndex + 1),
                                              action.command),
                          !.currentIndex = state.currentIndex + 1,
                          !.fields = applyCommand(state.fields, action.command),
                          !.version = state.version + 1]
      [] action.type = "UNDO" ->
            IF state.currentIndex < 0 THEN state
            ELSE [state EXCEPT !.currentIndex = state.currentIndex - 1,
                               !.fields = Reduce(Slice(state.commands, state.currentIndex)),
                               !.version = state.version + 1]
      [] action.type = "REDO" ->
            IF state.currentIndex >= Len(state.commands) - 1 THEN state
            ELSE [state EXCEPT !.currentIndex = state.currentIndex + 1,
                               !.fields = applyCommand(state.fields,
                                                       state.commands[state.currentIndex + 2]),
                               !.version = state.version + 1]
      [] OTHER -> state

\* useReducer(formReducer, initialState): formState, with the types of the
\* last three actions dispatched (trail) and the formState they were
\* dispatched on (before the last, and before the one before it).
Dispatch(action) ==
    /\ form.mounted
    /\ form.state.version < MaxVersion
    /\ form' = [form EXCEPT !.state = formReducer(form.state, action),
                            !.trail = IF Len(@) < 3 THEN Append(@, action.type)
                                      ELSE Append(Tail(@), action.type),
                            !.before = form.state,
                            !.before2 = form.before]
    /\ UNCHANGED <<defaultRetry, pendingRequests, requestInterceptors, responseInterceptors,
                   calls, registration, normalized, keyed, built, search>>

executeCommand(command) == Dispatch([type |-> "EXECUTE_COMMAND", command |-> command])
undo == Dispatch([type |-> "UNDO", command |-> NoCommand])
redo == Dispatch([type |-> "REDO", command |-> NoCommand])

InitForm ==
    /\ NoCalls
    /\ requestInterceptors = <<>> /\ responseInterceptors = <<>>
    /\ registration = NoRegistration /\ normalized = NoNormalized /\ keyed = NoKeyed
    /\ built = NoBuilt /\ search = NoSearch
    /\ form = [mounted |-> TRUE, state |-> initialState, trail |-> <<>>,
               before |-> initialState, before2 |-> initialState]

NextForm ==
    \/ \E command \in Commands : executeCommand(command)
    \/ undo
    \/ redo

FormSpec == InitForm /\ [][NextForm]_vars

\* ---------------------------------------------------------------- handleResponse alone
\* handleResponse is called with a response and a config (its retry field).
NotHandled == [threw |-> FALSE, value |-> NoValue, data |-> "null", cause |-> ""]
InitNormalizer ==
    /\ NoCalls
    /\ requestInterceptors = <<>> /\ responseInterceptors = <<>>
    /\ registration = NoRegistration
    /\ normalized \in [called : {FALSE}, response : Responses, config : RetryConfig,
                        result : {NotHandled}]
    /\ keyed = NoKeyed /\ built = NoBuilt /\ search = NoSearch /\ form = NoForm

Normalize ==
    /\ ~normalized.called
    /\ normalized' = [normalized EXCEPT !.called = TRUE,
                                        !.result = handleResponse(normalized.response,
                                                                  normalized.config)]
    /\ UNCHANGED <<defaultRetry, pendingRequests, requestInterceptors, responseInterceptors,
                   calls, registration, keyed, built, search, form>>

NormalizerSpec == InitNormalizer /\ [][Normalize]_vars

\* ---------------------------------------------------------------- claims
Done(c) == calls[c].pc = "done"
Failed(c) == calls[c].caught # NoValue
Rejected(c) == calls[c].settled = "rejected"
Policy(c) == EffectiveRetry(calls[c].options.retry)
Cancelled(c) ==
    /\ Rejected(c)
    /\ calls[c].result.name = "Cancelled"
    /\ Message(calls[c].result) = "Request was cancelled"
OnlyRethrown(log) == \A k \in DOMAIN log : log[k].out = "throw"
ErrorHandlers == {j \in DOMAIN responseInterceptors : responseInterceptors[j].onResponseError}

\* C1: cancelRequest(getRequestKey(url, options)) called while request(url,
\* options) awaits the transport aborts that attempt's controller, and with no
\* retry policy and no response interceptors the call then rejects with the
\* Error Record 'Request was cancelled'.
C1_CancelAbortsPending ==
    \A c \in Callers :
        /\ calls[c].pc = "fetch" /\ calls[c].cancelAsked => calls[c].aborted
        /\ Done(c) /\ calls[c].cancelAsked /\ ~Policy(c).defined /\ responseInterceptors = <<>>
              => Cancelled(c)

\* C2: from the start of an attempt until its completion (response, failure or
\* timeout) pendingRequests maps the attempt's key to the attempt's controller,
\* when no other in-flight request has the same key.
C2_RegistryHoldsAttempt ==
    \A c \in Callers :
        /\ calls[c].pc = "fetch" /\ ~calls[c].aborted
        /\ \A d \in Callers \ {c} : ~(calls[d].pc = "fetch" /\ Key(calls[d]) = Key(calls[c]))
        => /\ Key(calls[c]) \in DOMAIN pendingRequests
           /\ pendingRequests[Key(calls[c])] = Controller(c, calls[c])

\* C3, as claimed: once a timer of the call has fired before the transport
\* responded, the call rejects with 'Request was cancelled' and the registry
\* does not hold its key.
C3_TimeoutAlwaysCancelled ==
    \A c \in Callers :
        Done(c) /\ calls[c].timedOut
        => Cancelled(c) /\ Key(calls[c]) \notin DOMAIN pendingRequests

\* C3, amended: the same for a call without retry budget (no policy, or count
\* 0) in which no onResponseError handler returned or threw a different error.
C3_TimeoutCancelled ==
    \A c \in Callers :
        Done(c) /\ calls[c].timedOut /\ calls[c].budget = 0 /\ OnlyRethrown(calls[c].recoverLog)
        => Cancelled(c) /\ Key(calls[c]) \notin DOMAIN pendingRequests

C3_Witness ==
    \E c \in Callers :
        /\ Done(c) /\ calls[c].timedOut /\ calls[c].budget = 0
        /\ calls[c].recoverLog # <<>> /\ OnlyRethrown(calls[c].recoverLog)
        /\ Cancelled(c)

\* C4: a retry policy's count is never negative, and a failed attempt whose
\* effective policy has count 0 is not re-issued.
C4_CountNeverNegative ==
    \A c \in Callers :
        /\ calls[c].options.retry.count >= 0
        /\ Policy(c).count >= 0
        /\ calls[c].pc = "retrying" => Policy(c).count > 0
        /\ Failed(c) /\ Policy(c).count = 0 => Done(c)

C4_Witness ==
    \E c \in Callers :
        /\ Done(c) /\ Failed(c) /\ calls[c].attempt = 2
        /\ calls[c].options.retry.defined /\ calls[c].options.retry.count = 0

\* C5, as claimed: with policy {count: n} and no predicate, when every attempt
\* fails with status 500 the transport is invoked n+1 times and the call
\* rejects with the last attempt's failure.
C5_RetryThenPropagateAlways ==
    \A c \in Callers :
        Done(c) /\ Policy(c).defined /\ ~Policy(c).shouldRetry /\ Failed(c) /\ calls[c].all500
        => /\ calls[c].fetches = calls[c].budget + 1
           /\ Rejected(c) /\ calls[c].result = calls[c].caught

\* C5, amended: the transport is invoked n+1 times, and the call rejects with
\* the last attempt's failure unless an onResponseError handler returned or
\* threw a different error.
C5_RetryThenPropagate ==
    \A c \in Callers :
        Done(c) /\ Policy(c).defined /\ ~Policy(c).shouldRetry /\ Failed(c) /\ calls[c].all500
        => /\ calls[c].fetches = calls[c].budget + 1
           /\ calls[c].caught.config.count = 0
           /\ OnlyRethrown(calls[c].recoverLog)
                => Rejected(c) /\ calls[c].result = calls[c].caught

C5_Witness ==
    \E c \in Callers :
        /\ Done(c) /\ Policy(c).defined /\ ~Policy(c).shouldRetry /\ Failed(c) /\ calls[c].all500
        /\ calls[c].budget = 1 /\ calls[c].fetches = 2
        /\ Rejected(c) /\ calls[c].result.status = 500

\* C6: for any shouldRetry predicate and any initial count n, a call makes at
\* most n+1 attempts and eventually settles, given that every fetch settles
\* and every retry delay ends.
C6_BoundedAndSettles ==
    /\ [](\A c \in Callers : calls[c].attempt <= calls[c].budget + 1)
    /\ \A c \in {1} : (calls[c].pc # "idle") ~> Done(c)

C6_Witness ==
    \E c \in Callers :
        /\ Done(c) /\ Policy(c).shouldRetry
        /\ calls[c].budget >= 1 /\ calls[c].attempt = calls[c].budget + 1

\* C7: with count > 0 and no shouldRetry predicate, a failed attempt is
\* re-issued if and only if its error has no status or a status >= 500.
C7_DefaultEligibility ==
    \A c \in Callers :
        Failed(c) /\ Policy(c).defined /\ Policy(c).count > 0 /\ ~Policy(c).shouldRetry
        => (calls[c].pc = "retrying"
              <=> (calls[c].caught.status = NoStatus \/ calls[c].caught.status >= 500))

\* C8: a failed attempt that is not retried (budget 0, or ineligible error
\* with budget > 0) goes through the onResponseError loop and the abort
\* translation before the call rejects.
C8_UnretriedFailureChained ==
    \A c \in Callers :
        Done(c) /\ Failed(c)
        => /\ calls[c].chained
           /\ ErrorHandlers # {} => calls[c].recoverLog # <<>>
           /\ ~(Rejected(c) /\ IsAbortError(calls[c].result))

\* What C9 says of a failure that reached the onResponseError loop: the
\* handlers were tried in registration order up to the first that returned,
\* whose value the call resolves with; when all threw, the call rejects with
\* what the last one threw (translated: or with 'Request was cancelled' when
\* that is an AbortError exception).
Translate(c, e, translated) ==
    IF translated /\ e.name = "AbortError"
    THEN Value("Cancelled", NoStatus, calls[c].options.retry) ELSE e

RecoveryChain(c, translated) ==
    LET log == calls[c].recoverLog
        tried == {log[k].i : k \in DOMAIN log}
    IN  /\ \A k \in DOMAIN log : k > 1 => log[k - 1].i < log[k].i
        /\ \A k \in DOMAIN log : k < Len(log) => log[k].out # "return"
        /\ tried = {j \in ErrorHandlers : log # <<>> /\ j <= log[Len(log)].i}
        /\ IF log # <<>> /\ log[Len(log)].out = "return"
           THEN calls[c].settled = "resolved" /\ calls[c].result.name = "Recovered"
           ELSE /\ tried = ErrorHandlers
                /\ log # <<>> =>
                     /\ Rejected(c)
                     /\ calls[c].result
                          = Translate(c, Thrown(log[Len(log)].out, calls[c].caught), translated)

\* C9, as claimed: when every handler throws, the call rejects with what the
\* last one threw.
C9_LastFailureRejects ==
    \A c \in Callers : Done(c) /\ calls[c].chained => RecoveryChain(c, FALSE)

\* C9, amended: ... with what the last one threw, or with the Error Record
\* 'Request was cancelled' when that is an AbortError exception.
C9_LastFailureTranslated ==
    \A c \in Callers : Done(c) /\ calls[c].chained => RecoveryChain(c, TRUE)

C9_Witness ==
    \E c \in Callers :
        /\ Done(c) /\ calls[c].chained /\ Len(calls[c].recoverLog) = 2
        /\ calls[c].recoverLog[1].out = "throwOther" /\ calls[c].recoverLog[2].out = "throw"
        /\ Rejected(c) /\ calls[c].result = calls[c].caught

\* C10: when an onResponse throws, every onResponseError is run, in
\* registration order, whatever the earlier ones did, and the failure that
\* leaves applyResponseInterceptors is the one onResponse threw.
C10_AllHandlersNotified ==
    \A c \in Callers :
        calls[c].respThrew
        => /\ [k \in DOMAIN calls[c].notifyLog |-> calls[c].notifyLog[k].i]
                = SelectSeq(Indices(responseInterceptors), LAMBDA j : j \in ErrorHandlers)
           /\ calls[c].caught = InterceptorError

RequestTransforms == SelectSeq(Indices(requestInterceptors), LAMBDA i : requestInterceptors[i].onRequest)
RequestErrorHandlers ==
    SelectSeq(Indices(requestInterceptors), LAMBDA j : requestInterceptors[j].onRequestError)
Invoked(log) == [k \in DOMAIN log |-> log[k].i]

\* C11: the onRequest functions are applied in registration order, each to the
\* config the previous one returned, and the config the last one returned
\* gives the headers and credentials handed to fetch (over the default
\* header); the onRequestError handlers notified of a failure are notified in
\* registration order.
C11_RequestChainInOrder ==
    \A c \in Callers :
        /\ calls[c].sent # NoFetch
              => /\ calls[c].sent.headers = <<0>> \o RequestTransforms
                 /\ calls[c].sent.credentials = "same-origin"
        /\ calls[c].attempt = 1
              => \A k \in DOMAIN calls[c].reqLog :
                     k > 1 => calls[c].reqLog[k - 1].i < calls[c].reqLog[k].i

C11_Witness ==
    \E c \in Callers :
        /\ calls[c].pc = "fetch" /\ Len(RequestTransforms) = 2
        /\ calls[c].sent.headers = <<0, 1, 2>>

\* C12: when an onRequest throws, every onRequestError is invoked, in
\* registration order, whatever the earlier ones did, and the failure that
\* leaves applyRequestInterceptors is the one onRequest threw.
C12_AllRequestHandlersNotified ==
    \A c \in Callers :
        calls[c].reqThrew /\ calls[c].attempt = 1
        => /\ Invoked(calls[c].reqLog) = RequestErrorHandlers
           /\ calls[c].caught = InterceptorError

\* C13: when a request interceptor throws during a call, each onRequestError
\* handler is invoked exactly once, in order, the call rejects with the error
\* thrown and fetch is never invoked for the call.
C13_RequestFailureRejects ==
    \A c \in Callers :
        Done(c) /\ calls[c].reqThrew
        => /\ Invoked(calls[c].reqLog) = RequestErrorHandlers
           /\ Rejected(c) /\ calls[c].result = InterceptorError
           /\ calls[c].fetches = 0

\* C14: the fetchOptions of a request whose method is GET or HEAD, or is left
\* unspecified, have no body.
C14_NoBodyOnGetHead ==
    \A c \in Callers :
        /\ calls[c].pc = "fetch"
        /\ calls[c].options.method = "" \/ ToUpperCase(calls[c].options.method) \in {"GET", "HEAD"}
        => calls[c].sent.body = ""

\* C15: a rejection that no interceptor produced is an Error Record, never a
\* platform exception.
C15_RejectsWithErrorRecord ==
    \A c \in Callers :
        Rejected(c) /\ calls[c].recoverLog = <<>> /\ calls[c].reqLog = <<>> /\ ~calls[c].respThrew
        => ~InstanceofError(calls[c].result)

\* What a call has come to, apart from the record of the cancellations asked.
Progress(cs) == [cs EXCEPT !.cancelAsked = FALSE, !.cancelAllAsked = FALSE]
Registered(c) ==
    /\ calls[c].pc = "fetch"
    /\ \E k \in DOMAIN pendingRequests : pendingRequests[k] = Controller(c, calls[c])

C18_RemovalExactlyOnce ==
    \A c \in Callers :
        calls[c].pc \in {"retrying", "done"} /\ calls[c].sent # NoFetch
        => calls[c].deletes = 1

\* C19: when two calls with equal keys await fetch, the registry has the key
\* with the controller of one of them (the later), and cancelRequest(key)
\* aborts one of them.
C19_LaterCallRegistered ==
    \A c, d \in Callers :
        /\ c # d /\ Key(calls[c]) = Key(calls[d])
        /\ calls[c].pc = "fetch" /\ calls[d].pc = "fetch"
        => /\ ~calls[c].aborted /\ ~calls[d].aborted
              => /\ Key(calls[c]) \in DOMAIN pendingRequests
                 /\ pendingRequests[Key(calls[c])]
                      \in {Controller(c, calls[c]), Controller(d, calls[d])}
           /\ calls[c].cancelAsked /\ calls[d].cancelAsked
              => calls[c].aborted \/ calls[d].aborted

\* C20: a step of one call (its start, a response, a failure, its timeout, the
\* abort of its fetch, its re-issue) changes nothing of another call, and
\* what another call is doing never keeps a call from its next step.
C20_CallsIndependent ==
    /\ [](\A c \in Callers :
            /\ calls[c].pc = "idle" => ENABLED Request(c)
            /\ calls[c].pc = "retrying" => ENABLED RetryReissue(c)
            /\ calls[c].pc = "fetch" /\ ~calls[c].aborted
                  => ENABLED TransportRespond(c) /\ ENABLED TransportFail(c)
            /\ calls[c].pc = "fetch" /\ calls[c].timer => ENABLED Timeout(c)
            /\ calls[c].pc = "fetch" /\ calls[c].aborted => ENABLED FetchAborted(c))
    /\ [][\A c, d \in Callers :
            c # d /\ Progress(calls'[c]) # Progress(calls[c]) => calls'[d] = calls[d]]_vars

C20_Witness ==
    \E c, d \in Callers :
        /\ Key(calls[c]) # Key(calls[d])
        /\ calls[c].pc = "retrying" /\ calls[c].timedOut
        /\ calls[d].pc = "fetch" /\ ~calls[d].aborted /\ calls[d].timer

\* The interceptors of the registrations made on a list whose unregister
\* function was not called, in registration order.
Remaining(list) ==
    LET kept == SelectSeq(registration, LAMBDA r : r.list = list /\ ~r.called)
    IN  [i \in 1..Len(kept) |-> kept[i].interceptor]

\* C21: an unregister function removes exactly the registration that produced
\* it, keeps the order of the others, and has no effect when called again:
\* each list holds, in registration order, the interceptors of exactly the
\* registrations whose unregister function was never called.
C21_UnregisterExact ==
    /\ requestInterceptors = Remaining("request")
    /\ responseInterceptors = Remaining("response")

\* C22: the policy in force is the per-call one when supplied and the default
\* otherwise, and a re-issued attempt carries the decremented policy as its
\* per-call policy: from the second attempt on the options hold a policy whose
\* count is the starting budget less the re-issues made, never below 0, so the
\* default's count is not taken up again (not even at count 0).
C22_PolicyCarried ==
    \A c \in Callers :
        LET cs == calls[c]
        IN  /\ cs.attempt >= 1 => cs.attempt <= cs.budget + 1
            /\ cs.attempt >= 2 =>
                   /\ cs.options.retry.defined
                   /\ cs.options.retry.count = cs.budget - (cs.attempt - 1)
                   /\ cs.options.retry.count >= 0
                   /\ EffectiveRetry(cs.options.retry) = cs.options.retry

\* A call that started on the default policy failed its last attempt, made
\* with a per-call count of 0, and was rejected.
C22_Witness ==
    \E c \in Callers :
        /\ defaultRetry.defined /\ defaultRetry.count = MaxCount
        /\ calls[c].budget = MaxCount
        /\ calls[c].attempt = MaxCount + 1
        /\ calls[c].options.retry.count = 0
        /\ calls[c].settled = "rejected"

\* C23: a retry enters request() again with the same URL and the same options
\* but for the policy's count, one less: the request interceptors run again
\* on the caller's configuration (the headers handed to fetch are those of one
\* pass of the chain, or the pass failed and its handlers were notified), and
\* the attempt has a controller that is not aborted and an armed timer of its
\* own.
C23_RetryReenters ==
    [][\A c \in Callers :
          calls[c].pc = "retrying" /\ calls'[c] # calls[c]
          => LET cs == calls[c]
                 ns == calls'[c]
                 policy == EffectiveRetry(cs.options.retry)
             IN  /\ ns.url = cs.url
                 /\ ns.options.retry = [policy EXCEPT !.count = policy.count - 1]
                 /\ [ns.options EXCEPT !.retry = cs.options.retry] = cs.options
                 /\ ns.attempt = cs.attempt + 1
                 /\ \/ /\ ns.pc = "fetch"
                       /\ ns.fetches = cs.fetches + 1
                       /\ ns.sent.headers = <<0>> \o RequestTransforms
                       /\ ~ns.aborted /\ ns.timer
                    \/ /\ ns.pc # "fetch"
                       /\ ns.fetches = cs.fetches
                       /\ ns.reqThrew
                       /\ Len(ns.reqLog) >= Len(cs.reqLog)]_vars

\* The second attempt of a call whose first attempt was aborted by its timer
\* awaits fetch with a live controller, after the interceptor chain ran again.
C23_Witness ==
    \E c \in Callers :
        /\ calls[c].pc = "fetch" /\ calls[c].attempt = 2
        /\ calls[c].timedOut /\ ~calls[c].aborted /\ calls[c].timer
        /\ Len(RequestTransforms) >= 1
        /\ calls[c].sent.headers = <<0>> \o RequestTransforms

\* C29: an attempt has one timer, armed from its entry until the transport
\* answers, the attempt fails or the timer fires: a timer is armed only while
\* an attempt that was not aborted awaits fetch, an attempt awaiting fetch has
\* its timer armed unless it was aborted, a controller gets aborted only
\* while its attempt awaits fetch with the timer armed, and no timer is armed
\* in the retry delay or once the call settled.
C29_TimerWithinAttempt ==
    /\ [](\A c \in Callers :
             /\ calls[c].timer => calls[c].pc = "fetch" /\ ~calls[c].aborted
             /\ calls[c].pc = "fetch" => (calls[c].timer \/ calls[c].aborted)
             /\ calls[c].pc \in {"retrying", "done"} => ~calls[c].timer)
    /\ [][\A c \in Callers :
             calls'[c].aborted /\ ~calls[c].aborted
             => calls[c].pc = "fetch" /\ calls[c].timer /\ calls'[c].pc = "fetch"]_vars

\* A call is in its retry delay after the transport answered with an HTTP
\* error; no timer fired, and none is armed.
C29_Witness ==
    \E c \in Callers :
        /\ calls[c].pc = "retrying" /\ ~calls[c].timer
        /\ ~calls[c].timedOut /\ calls[c].caught.name = "HttpError"

\* C30: for one failed attempt no onResponseError function is invoked more
\* than once, also when an onResponse throws and no retry is taken: the
\* handlers notified by applyResponseInterceptors and the handlers tried by
\* the catch block of the attempt are each invoked once and have no handler in
\* common.
C30_ErrorHandlerOnce ==
    \A c \in Callers :
        LET invoked == Invoked(calls[c].notifyLog) \o Invoked(calls[c].recoverLog)
        IN  \A j, k \in DOMAIN invoked : j # k => invoked[j] # invoked[k]

\* The body is there to read, and reading it as JSON fails.
Unparsable(response) ==
    /\ response.body = "badjson" /\ response.contentLength # "0"
    /\ response.contentType = "application/json"
\* What reading the body gives.
Parsed(response) ==
    IF response.body = "none" \/ response.contentLength = "0" THEN "null"
    ELSE IF response.contentType = "application/json" THEN "parsed" ELSE "text"

\* C24: for a status outside 200..299 the normalizer signals an Error Record
\* with the parsed body, the status and the config, also when the body parsed;
\* when parsing fails with a syntax error it signals 'Invalid response format'
\* with null data, the status, the config and the cause, whatever the status.
C24_NormalizerFailures ==
    normalized.called =>
        LET response == normalized.response
            result == normalized.result
        IN  /\ Unparsable(response) =>
                  /\ result.threw
                  /\ Message(result.value) = "Invalid response format"
                  /\ result.data = "null" /\ result.cause = "SyntaxError"
                  /\ result.value.status = response.status
                  /\ result.value.config = normalized.config
            /\ ~Unparsable(response) /\ ~(response.status \in 200..299) =>
                  /\ result.threw
                  /\ result.value.name = "HttpError"
                  /\ result.data = Parsed(response) /\ result.cause = ""
                  /\ result.value.status = response.status
                  /\ result.value.config = normalized.config
            /\ result.threw => Unparsable(response) \/ ~(response.status \in 200..299)

\* A 500 response whose JSON body does not parse was normalized.
C24_Witness ==
    /\ normalized.called
    /\ normalized.response.status = 500 /\ Unparsable(normalized.response)
    /\ normalized.result.value.name = "InvalidFormat"
    /\ normalized.config.defined

\* C26: with content-length "0", or without a body, nothing is read: data is
\* null, no parse failure is signalled, the status is the response's, and a
\* success status gives an envelope.
C26_EmptyBodyNotRead ==
    normalized.called
    /\ (normalized.response.contentLength = "0" \/ normalized.response.body = "none")
    => /\ normalized.result.data = "null"
       /\ normalized.result.cause = ""
       /\ normalized.result.value.name # "InvalidFormat"
       /\ normalized.result.value.status = normalized.response.status
       /\ normalized.response.status \in 200..299
             => ~normalized.result.threw /\ normalized.result.value.name = "Envelope"

\* A 200 response with content-length "0" (and a body that would not parse)
\* was normalized to an envelope.
C26_Witness ==
    /\ normalized.called
    /\ normalized.response.contentLength = "0" /\ normalized.response.body = "badjson"
    /\ normalized.response.contentType = "application/json"
    /\ normalized.response.status = 200
    /\ ~normalized.result.threw

\* The effective (method, URL, credentials, serialized body) of a request:
\* the method and credentials defaulted, the body serialized when there is one.
Effective(request) ==
    <<IF request.options.method = "" THEN "GET" ELSE request.options.method,
      request.url,
      IF request.options.credentials = "" THEN "same-origin" ELSE request.options.credentials,
      IF request.options.body = Undefined THEN Undefined
      ELSE "\"" \o request.options.body \o "\"">>

\* C25: getRequestKey is injective on the effective (method, URL, credentials,
\* serialized body): two requests that differ in it never get the same key.
C25_KeyInjective ==
    keyed.called /\ Effective(keyed.a) # Effective(keyed.b) => keyed.keyA # keyed.keyB

\* The URL the claim describes, a space written as `space`: base URL and path,
\* then the parameters that are not undefined, null or blank, each encoded,
\* joined with "&" and prefixed with "?" (or "&" when the URL has a "?").
SerializedUrl(space) ==
    LET params == built.params
        url == built.baseURL \o built.url
        Omitted(p) ==
            p.value.kind # "string" \/ \A i \in DOMAIN p.value.chars : p.value.chars[i] = " "
        Encoded(char) == CASE char = " " -> space [] char = "&" -> "%26" [] OTHER -> char
        Piece(p) == <<p.key, "=">> \o [i \in DOMAIN p.value.chars |-> Encoded(p.value.chars[i])]
        query[i \in 0..Len(params)] ==
            IF i = 0 THEN <<>>
            ELSE IF Omitted(params[i]) THEN query[i - 1]
            ELSE IF query[i - 1] = <<>> THEN Piece(params[i])
            ELSE query[i - 1] \o <<"&">> \o Piece(params[i])
    IN  IF query[Len(params)] = <<>> THEN url
        ELSE url \o <<IF \E i \in DOMAIN url : url[i] = "?" THEN "&" ELSE "?">>
                 \o query[Len(params)]

\* get("/users", {params: {q: "a b", empty: ""}}) of a client with base "/api".
Scenario ==
    /\ built.called /\ built.baseURL = <<"/api">> /\ built.url = <<"/users">>
    /\ built.params = <<[key |-> "q", value |-> ParamValue("string", <<"a", " ", "b">>)],
                        [key |-> "empty", value |-> ParamValue("string", <<>>)]>>

\* C27 as stated: the URL given to the transport is base URL + path + the
\* parameters that are not undefined, null or blank, percent-encoded with a
\* space as %20, joined with "&" and prefixed with "?" or "&"; the scenario
\* gives "/api/users?q=a%20b".
C27_SpaceAsPercent20 ==
    built.called =>
        /\ built.fullUrl = SerializedUrl("%20")
        /\ Scenario => Join(built.fullUrl) = "/api/users?q=a%20b"

\* C27 amended: the same, with a space written as "+" (the form-urlencoded
\* serialization of URLSearchParams); the scenario gives "/api/users?q=a+b".
C27_SpaceAsPlus ==
    built.called =>
        /\ built.fullUrl = SerializedUrl("+")
        /\ Scenario => Join(built.fullUrl) = "/api/users?q=a+b"

\* The scenario's URL was built.
C27_Witness == Scenario /\ built.hasParams /\ Len(built.fullUrl) > Len(built.url) + 1

\* C28: the results shown (apiData, rendered while apiStatus is "success")
\* belong to the most recent debounced search term, and a response to an
\* earlier search that arrives after a newer search, or after the term was
\* cleared, does not overwrite apiData and apiStatus: while the debounced term
\* is blank the status stays "idle" with no data, and results shown are those
\* of the debounced term.
C28_ResultsOfLatestTerm ==
    search.mounted =>
        /\ search.debouncedSearchTerm = ""
              => search.apiStatus = "idle" /\ search.apiData = NoData
        /\ search.apiStatus = "success" => search.apiData = search.debouncedSearchTerm

\* C31: after any sequence of EXECUTE_COMMAND, UNDO and REDO,
\* -1 <= currentIndex <= commands.length - 1 and fields is what replaying
\* commands[0..currentIndex] in order from the empty field list gives.
C31_FieldsAreReplay ==
    form.mounted =>
        /\ -1 <= form.state.currentIndex
        /\ form.state.currentIndex <= Len(form.state.commands) - 1
        /\ form.state.fields
             = Reduce(SubSeq(form.state.commands, 1, form.state.currentIndex + 1))

\* A field was added, the command undone and redone: the form holds the field.
C31_Witness ==
    /\ form.mounted
    /\ form.trail = <<"EXECUTE_COMMAND", "UNDO", "REDO">>
    /\ form.state.currentIndex = 0 /\ Len(form.state.commands) = 1
    /\ form.state.fields # <<>> /\ form.before.fields = <<>>

Core(state) == <<state.fields, state.commands, state.currentIndex>>
\* The types of the last n actions dispatched.
LastDispatched(n) ==
    IF Len(form.trail) < n THEN <<>>
    ELSE SubSeq(form.trail, Len(form.trail) - n + 1, Len(form.trail))

\* C32: where undo is possible, UNDO followed immediately by REDO restores the
\* fields, commands and currentIndex there were before the UNDO; an
\* EXECUTE_COMMAND issued after an UNDO discards every undone command (the
\* history is the commands kept by the UNDO and then the new one, which is the
\* current one), so that a following REDO leaves the state unchanged.
C32_UndoRedoRoundTrip ==
    form.mounted =>
        /\ LastDispatched(2) = <<"UNDO", "REDO">> /\ form.before2.currentIndex >= 0
              => Core(form.state) = Core(form.before2)
        /\ LastDispatched(2) = <<"UNDO", "EXECUTE_COMMAND">> /\ form.before2.currentIndex >= 0
              => /\ Len(form.state.commands) = form.before2.currentIndex + 1
                 /\ Slice(form.state.commands, form.before2.currentIndex)
                      = Slice(form.before2.commands, form.before2.currentIndex)
                 /\ form.state.currentIndex = Len(form.state.commands) - 1
        /\ LastDispatched(3) = <<"UNDO", "EXECUTE_COMMAND", "REDO">>
              => form.state = form.before

\* A command was undone, another executed in its place, and REDO dispatched:
\* the history holds the new command alone.
C32_Witness ==
    /\ form.mounted
    /\ form.trail = <<"UNDO", "EXECUTE_COMMAND", "REDO">>
    /\ form.before2.currentIndex = -1 /\ Len(form.before2.commands) = 1
    /\ Len(form.state.commands) = 1 /\ form.state.commands # form.before2.commands
    /\ form.state.currentIndex = 0

\* C33: after any interleaving of key events, input changes, focus events and
\* arriving responses, -1 <= activeIndex < apiData.length for the apiData held.
C33_ActiveIndexInRange ==
    search.mounted =>
        /\ -1 <= search.activeIndex
        /\ search.activeIndex < OptionsLength(search.apiData)

====
